---- MODULE Spec2Model ----
(***************************************************************************)
(* Model of the message pipeline of backend/main.py (BizSakhi API):        *)
(*   _ultra_fast_transaction_detection  (fast regex path)                  *)
(*   _get_smart_fallback_response       (canned fallback)                  *)
(*   process_text_message               (clear commands, classifier with   *)
(*                                       a 15 s thread join, dispatch)     *)
(*   confirm_items                      (user-confirmed item list)         *)
(*                                                                         *)
(* A message is a sequence of lower-case words separated by single spaces. *)
(* Amounts are integers in hundredths (paise), so 500 is 50000.            *)
(* An optional value (a dict key that may be absent or None) is a sequence *)
(* of length 0 or 1.                                                       *)
(***************************************************************************)
EXTENDS Integers, Sequences, FiniteSets, TLC

(***************************************************************************)
(* Bounds of the model.                                                    *)
(***************************************************************************)
\* a message is built from at most MaxChunks phrases of Chunks
MaxChunks == 2
\* a classifier batch ("transactions") holds at most MaxBatch items
MaxBatch == 3
\* a confirm-items request holds at most MaxConfirm items
MaxConfirm == 2
\* a message about clear commands is built from at most MaxPhrases phrases
\* of ClearChunks
MaxPhrases == 3
\* a question is built from at most MaxQueryWords words of QueryWords
MaxQueryWords == 2
\* a message for the fallback responder is built from at most
\* MaxFallbackWords words of FallbackWords
MaxFallbackWords == 2

(***************************************************************************)
(* Words and characters.                                                   *)
(***************************************************************************)
Digits == {"0", "1", "2", "3", "4", "5", "6", "7", "8", "9"}

DigitVal(c) ==
  CASE c = "0" -> 0 [] c = "1" -> 1 [] c = "2" -> 2 [] c = "3" -> 3
    [] c = "4" -> 4 [] c = "5" -> 5 [] c = "6" -> 6 [] c = "7" -> 7
    [] c = "8" -> 8 [] c = "9" -> 9 [] OTHER -> 0

\* The characters of the words of the model that start with a digit; << >>
\* for every other word.
WordChars(w) ==
  CASE w = "0"   -> <<"0">>
    [] w = "200" -> <<"2", "0", "0">>
    [] w = "500" -> <<"5", "0", "0">>
    [] w = "5.5" -> <<"5", ".", "5">>
    [] w = "1,200.50"  -> <<"1", ",", "2", "0", "0", ".", "5", "0">>
    [] w = "12,00,000" -> <<"1", "2", ",", "0", "0", ",", "0", "0", "0">>
    [] OTHER     -> << >>

\* The keywords (of the keyword lists of main.py) that a word of the model
\* contains as a substring.
WordSubstrings(w) ==
  CASE w = "income"  -> {"income"}
    [] w = "expense" -> {"expense"}
    [] w = "hello"   -> {"hello"}
    [] w = "profit"  -> {"profit"}
    [] w = "kharch"  -> {"kharch"}
    [] w = "today"   -> {"today"}
    [] w = "aaj"     -> {"aaj"}
    [] OTHER         -> {}

\* str.startswith / str.endswith between a word of the model and a word of a
\* phrase or pattern: the model's words are the phrase words themselves.
StartsWith(w, kw) == w = kw
EndsWith(w, kw) == w = kw

(***************************************************************************)
(* The amount group of the fast patterns:                                  *)
(*   (\d+(?:,\d{3})*(?:\.\d{2})?)                                          *)
(***************************************************************************)
RECURSIVE DigitRun(_, _)
\* number of consecutive digits of s from position p
DigitRun(s, p) ==
  IF p <= Len(s) /\ s[p] \in Digits THEN 1 + DigitRun(s, p + 1) ELSE 0

RECURSIVE GroupsEnd(_, _)
\* position after the longest run of ",ddd" groups starting at p
GroupsEnd(s, p) ==
  IF p + 3 <= Len(s) /\ s[p] = "," /\ s[p + 1] \in Digits
     /\ s[p + 2] \in Digits /\ s[p + 3] \in Digits
  THEN GroupsEnd(s, p + 4)
  ELSE p

\* position after an optional ".dd" at p
DecimalEnd(s, p) ==
  IF p + 2 <= Len(s) /\ s[p] = "." /\ s[p + 1] \in Digits /\ s[p + 2] \in Digits
  THEN p + 3
  ELSE p

\* Greedy match of the amount group at position p of s: the position after
\* the match, or p when the group does not match there.
AmountEnd(s, p) ==
  LET d == DigitRun(s, p)
  IN IF d = 0 THEN p ELSE DecimalEnd(s, GroupsEnd(s, p + d))

\* s[p..] as a whole is in the language of the amount group (the match the
\* regex engine finds, by backtracking, when the group must reach the end of
\* the word)
RECURSIVE GroupsToEnd(_, _)
GroupsToEnd(s, p) ==
  \/ p = Len(s) + 1
  \/ p + 2 = Len(s) /\ DecimalEnd(s, p) = p + 3
  \/ /\ GroupsEnd(s, p) # p
     /\ GroupsToEnd(s, p + 4)

FullAmount(s, p) ==
  \E d \in 1..DigitRun(s, p) : GroupsToEnd(s, p + d)

RECURSIVE ParseDigits(_, _, _, _)
\* integer value of the digits of s[p..q-1], commas dropped
ParseDigits(s, p, q, acc) ==
  IF p >= q THEN acc
  ELSE IF s[p] \in Digits THEN ParseDigits(s, p + 1, q, acc * 10 + DigitVal(s[p]))
  ELSE ParseDigits(s, p + 1, q, acc)

\* float(match.group(1).replace(',', '')) for the group s[p..q-1], in
\* hundredths
ParseAmount(s, p, q) ==
  IF q - p >= 3 /\ s[q - 3] = "."
  THEN ParseDigits(s, p, q - 3, 0) * 100 + ParseDigits(s, q - 2, q, 0)
  ELSE ParseDigits(s, p, q, 0) * 100

(***************************************************************************)
(* Inputs: messages, languages, chat modes.                                *)
(* Hindi words are written in Latin letters: aay, kamai (income), kharch,  *)
(* kharcha (expense), saaf, hata, shunya, sab, kuch, itihas, aaj.          *)
(***************************************************************************)
Chunks ==
  { <<"income", "500">>, <<"income", "0">>, <<"expense", "200">>, <<"income">>,
    <<"clear", "expense">>, <<"clear", "income">>, <<"clear", "chat">>,
    <<"clear", "all">>, <<"hello">> }

\* the phrases of the messages about clear commands
ClearChunks ==
  { <<"clear", "expense">>, <<"clear", "income">>, <<"clear", "chat">>,
    <<"clear", "all">>, <<"income", "500">> }

RECURSIVE MessagesOf(_, _)
\* the messages made of 0..n phrases of chunks
MessagesOf(chunks, n) ==
  IF n = 0 THEN {<< >>}
  ELSE LET shorter == MessagesOf(chunks, n - 1)
       IN shorter \cup {m \o c : m \in shorter, c \in chunks}

Messages == MessagesOf(Chunks, MaxChunks) \ {<< >>}

ClearMessages == MessagesOf(ClearChunks, MaxPhrases) \ {<< >>}

\* the words of the questions; indru_ta is the Tamil word for today, which
\* is in no keyword list of main.py
QueryWords ==
  { <<"profit">>, <<"income">>, <<"expense">>, <<"kharch">>,
    <<"today">>, <<"aaj">>, <<"indru_ta">> }

QueryMessages == MessagesOf(QueryWords, MaxQueryWords) \ {<< >>}

\* amounts as a user writes them: plain, with thousands separators and two
\* decimals, with one decimal, with lakh separators, and zero
AmountWords == {"500", "1,200.50", "5.5", "12,00,000", "0"}

\* a fast keyword followed by an amount
AmountMessages == {<<kw, a>> : kw \in {"income", "expense"}, a \in AmountWords}

\* a greeting word, a help word, a how word and a word of no category
FallbackWords == { <<"hello">>, <<"help">>, <<"how">>, <<"income">> }

FallbackMessages == MessagesOf(FallbackWords, MaxFallbackWords) \ {<< >>}

\* "te" stands for every language code other than en, hi, ta, ml
Languages == {"en", "hi", "ta", "ml", "te"}

ChatModes == {"business", "general"}

\* the branch of an if language == "en" / "hi" / "ta" / "ml" / else chain
LangBranch(lang) == IF lang \in {"en", "hi", "ta", "ml"} THEN lang ELSE "other"

(***************************************************************************)
(* _ultra_fast_transaction_detection: the ordered pattern list.            *)
(*   lead : keyword \s+ (is \s+)? (rs|rs.|rupee sign)? amount              *)
(*   trail: (rs|rs.|rupee sign)? amount \s+ keyword                        *)
(***************************************************************************)
patterns ==
  << [kind |-> "lead",  kws |-> {"income"},   is |-> TRUE,  type |-> "income"],
     [kind |-> "lead",  kws |-> {"earned"},   is |-> FALSE, type |-> "income"],
     [kind |-> "lead",  kws |-> {"received"}, is |-> FALSE, type |-> "income"],
     [kind |-> "lead",  kws |-> {"aay"},      is |-> FALSE, type |-> "income"],
     [kind |-> "lead",  kws |-> {"kamai"},    is |-> FALSE, type |-> "income"],
     [kind |-> "lead",  kws |-> {"expense"},  is |-> TRUE,  type |-> "expense"],
     [kind |-> "lead",  kws |-> {"spent"},    is |-> FALSE, type |-> "expense"],
     [kind |-> "lead",  kws |-> {"paid"},     is |-> FALSE, type |-> "expense"],
     [kind |-> "lead",  kws |-> {"kharch"},   is |-> FALSE, type |-> "expense"],
     [kind |-> "lead",  kws |-> {"kharcha"},  is |-> FALSE, type |-> "expense"],
     [kind |-> "trail", kws |-> {"income", "aay"},     is |-> FALSE, type |-> "income"],
     [kind |-> "trail", kws |-> {"expense", "kharch"}, is |-> FALSE, type |-> "expense"] >>

CurrencyWords == {"rs", "rs.", "rupee_sign"}

\* index of the word the amount group must start in, for a lead pattern
\* whose keyword is word k
LeadAmountWord(msg, k, p) ==
  LET a == IF p.is /\ k + 1 <= Len(msg) /\ msg[k + 1] = "is" THEN k + 2 ELSE k + 1
  IN IF a <= Len(msg) /\ msg[a] \in CurrencyWords THEN a + 1 ELSE a

LeadMatchAt(msg, k, p) ==
  /\ \E kw \in p.kws : EndsWith(msg[k], kw)
  /\ LET a == LeadAmountWord(msg, k, p)
     IN a <= Len(msg) /\ AmountEnd(WordChars(msg[a]), 1) > 1

\* first character of word c from which the rest of the word is an amount
\* (0: none): the leftmost start the regex search finds for a trail pattern
TrailStart(c) ==
  LET starts == {j \in 1..Len(c) : FullAmount(c, j)}
  IN IF starts = {} THEN 0 ELSE CHOOSE j \in starts : \A x \in starts : j <= x

TrailMatchAt(msg, k, p) ==
  /\ k + 1 <= Len(msg)
  /\ TrailStart(WordChars(msg[k])) > 0
  /\ \E kw \in p.kws : StartsWith(msg[k + 1], kw)

MatchAt(msg, k, p) ==
  IF p.kind = "lead" THEN LeadMatchAt(msg, k, p) ELSE TrailMatchAt(msg, k, p)

\* re.search(pattern, message_lower): the leftmost match, 0 when none
SearchPattern(msg, p) ==
  LET at == {k \in 1..Len(msg) : MatchAt(msg, k, p)}
  IN IF at = {} THEN 0 ELSE CHOOSE k \in at : \A x \in at : k <= x

\* amount = float(match.group(1).replace(',', '')), in hundredths
MatchAmount(msg, p) ==
  LET k == SearchPattern(msg, p)
  IN IF p.kind = "lead"
     THEN LET c == WordChars(msg[LeadAmountWord(msg, k, p)])
          IN ParseAmount(c, 1, AmountEnd(c, 1))
     ELSE LET c == WordChars(msg[k])
          IN ParseAmount(c, TrailStart(c), Len(c) + 1)

\* the next pattern, from index i on, that matches the message (0: none):
\* the for loop skips the patterns whose re.search returns None
NextMatch(msg, i) ==
  LET hits == {j \in i..Len(patterns) : SearchPattern(msg, patterns[j]) > 0}
  IN IF hits = {} THEN 0 ELSE CHOOSE j \in hits : \A x \in hits : j <= x

(***************************************************************************)
(* process_text_message: the clear-command phrase sets.                    *)
(***************************************************************************)
ExpensePhrases ==
  { <<"clear", "expense">>, <<"delete", "expense">>, <<"remove", "expense">>,
    <<"reset", "expense">>, <<"make", "expense", "0">>, <<"expense", "to", "0">>,
    <<"kharch", "saaf">>, <<"kharch", "hata">>, <<"kharch", "shunya">> }

IncomePhrases ==
  { <<"clear", "income">>, <<"delete", "income">>, <<"remove", "income">>,
    <<"reset", "income">>, <<"make", "income", "0">>, <<"income", "to", "0">>,
    <<"aay", "saaf">>, <<"aay", "hata">>, <<"aay", "shunya">> }

ChatPhrases ==
  { <<"clear", "chat">>, <<"delete", "chat">>, <<"remove", "chat">>,
    <<"reset", "chat">>, <<"clear", "history">>, <<"delete", "history">>,
    <<"chat", "saaf">>, <<"chat", "hata">>, <<"itihas", "saaf">> }

AllPhrases ==
  { <<"clear", "all">>, <<"delete", "all">>, <<"reset", "all">>,
    <<"clear", "everything">>, <<"reset", "everything">>,
    <<"sab", "saaf">>, <<"sab", "hata">>, <<"sab", "kuch", "saaf">> }

\* phrase in message_lower, the phrase starting in word k
PhraseAt(msg, k, ph) ==
  LET n == Len(ph)
  IN /\ k + n - 1 <= Len(msg)
     /\ IF n = 1 THEN ph[1] \in WordSubstrings(msg[k]) \cup {msg[k]}
        ELSE /\ EndsWith(msg[k], ph[1])
             /\ StartsWith(msg[k + n - 1], ph[n])
             /\ \A i \in 2..(n - 1) : msg[k + i - 1] = ph[i]

\* any(phrase in message_lower for phrase in phrases)
AnyPhrase(msg, phrases) ==
  \E ph \in phrases : \E k \in 1..Len(msg) : PhraseAt(msg, k, ph)

\* the chain with its branches in the opposite order
ClearCommandReversed(msg) ==
  IF AnyPhrase(msg, AllPhrases) THEN "all_clear"
  ELSE IF AnyPhrase(msg, ChatPhrases) THEN "chat_clear"
  ELSE IF AnyPhrase(msg, IncomePhrases) THEN "income_clear"
  ELSE IF AnyPhrase(msg, ExpensePhrases) THEN "expense_clear"
  ELSE "none"

\* the if / elif chain of the clear commands: the first branch taken
ClearCommand(msg) ==
  IF AnyPhrase(msg, ExpensePhrases) THEN "expense_clear"
  ELSE IF AnyPhrase(msg, IncomePhrases) THEN "income_clear"
  ELSE IF AnyPhrase(msg, ChatPhrases) THEN "chat_clear"
  ELSE IF AnyPhrase(msg, AllPhrases) THEN "all_clear"
  ELSE "none"

\* the ledger operation each clear branch calls
ClearOp(cmd) ==
  CASE cmd = "expense_clear" -> "clear_expenses"
    [] cmd = "income_clear"  -> "clear_income"
    [] cmd = "chat_clear"    -> "clear_chat_history"
    [] cmd = "all_clear"     -> "clear_all_data"

(***************************************************************************)
(* Values: optional values, texts, dictionaries.                           *)
(* A text is a tuple of strings naming the template and its parameters;    *)
(* << >> is the empty string.                                              *)
(***************************************************************************)
Absent == << >>
Some(x) == <<x>>
\* Python truthiness of dict.get(key) for a number: absent, None and 0 are
\* false
Truthy(opt) == opt # Absent /\ opt[1] # 0

\* one item of intent_result["transactions"]
Item(intent, amount, product, quantity) ==
  [intent |-> intent, amount |-> amount, product_name |-> product, quantity |-> quantity]

\* the classifier's payload, and what parse_intent does:
\*   kind "hang"  : the call does not return
\*   kind "error" : the call raises
\*   kind "none"  : the call returns None (no dictionary)
\*   kind "dict"  : the call returns a dictionary with these keys
Payload(kind, intent, action, transactions, amount, msg) ==
  [kind |-> kind, intent |-> intent, action |-> action, primary_intent |-> Absent,
   transactions |-> transactions, data_amount |-> amount, response_message |-> msg,
   confidence |-> Absent, is_business_related |-> Absent, fallback_used |-> FALSE]

NoneResult == Payload("none", Absent, Absent, << >>, Absent, Absent)

AiText == <<"ai_message">>

(***************************************************************************)
(* _get_smart_fallback_response                                            *)
(***************************************************************************)
GreetingWords == {"hi", "hello", "hey", "namaste", "hailo", "vanakkam", "halo"}
HelpWords == {"help", "madad", "udavi", "sahayam"}
HowWords == {"how", "kaise", "eppadi", "engane"}

\* any(word in message_lower for word in words)
AnyWord(msg, words) ==
  \E k \in 1..Len(msg) : (WordSubstrings(msg[k]) \cup {msg[k]}) \cap words # {}

\* the chain with the help test before the greeting test
FallbackCategoryHelpFirst(msg) ==
  IF AnyWord(msg, HelpWords) THEN "help"
  ELSE IF AnyWord(msg, GreetingWords) THEN "greeting"
  ELSE IF AnyWord(msg, HowWords) THEN "how"
  ELSE "default"

FallbackCategory(msg) ==
  IF AnyWord(msg, GreetingWords) THEN "greeting"
  ELSE IF AnyWord(msg, HelpWords) THEN "help"
  ELSE IF AnyWord(msg, HowWords) THEN "how"
  ELSE "default"

SmartFallbackResponse(msg, lang) ==
  [kind |-> "dict", intent |-> Some("conversational"), action |-> Absent,
   primary_intent |-> Absent, transactions |-> << >>, data_amount |-> Absent,
   response_message |-> Some(<<"fallback", FallbackCategory(msg), LangBranch(lang)>>),
   confidence |-> Some(80), is_business_related |-> Some(TRUE), fallback_used |-> TRUE]

(***************************************************************************)
(* External collaborators: what a call can do.                             *)
(***************************************************************************)
\* add_income / add_expense / add_inventory_item / clear_*: a result with
\* success true, a result with success false, or a raised error
LedgerOutcomes == {"ok", "fail", "error"}
\* save_chat_history: returns, or raises
HistoryOutcomes == {"ok", "error"}

LedgerResult(op, outcome) ==
  [success |-> (outcome = "ok"), message |-> <<"ledger", op, outcome>>]

LedgerCall(op, amount, source) == [op |-> op, amount |-> amount, source |-> source]

HistoryCall(text, intent, outcome) ==
  [response |-> text, intent |-> intent, recorded |-> (outcome = "ok")]

(***************************************************************************)
(* State.                                                                  *)
(***************************************************************************)
VARIABLES
  endpoint,          \* "text" (process_text_message) or "confirm" (confirm_items)
  message,           \* Form field message
  language,          \* Form field language
  chat_mode,         \* Form field chat_mode
  ai_reply,          \* what ai_processor.parse_intent does for this request
  confirmed_items,   \* data["items"] of a confirm-items request
  pc,                \* position of the request handler
  fast_i,            \* index of the next pattern of the fast detection loop
  thread,            \* "idle", "running", "finished" (container written), "dead"
  result_container,  \* [result, error] written by ai_processing_thread
  join_outcome,      \* how thread.join(timeout=15) returned
  result_source,     \* where intent_result came from
  intent_result,     \* the dictionary the dispatch works on
  item_k,            \* index of the next item of the batch / confirmed list
  business_results,  \* results appended so far
  response_message,  \* the response text built so far
  ledger_calls,      \* ledger writes and clears invoked, in order
  ledger_reads,      \* ledger aggregate reads invoked, in order
  history_calls,     \* save_chat_history calls, in order
  response           \* << >> until the handler returns, then <<response>>

vars ==
  <<endpoint, message, language, chat_mode, ai_reply, confirmed_items, pc, fast_i,
    thread, result_container, join_outcome, result_source, intent_result, item_k,
    business_results, response_message, ledger_calls, ledger_reads, history_calls,
    response>>

inputs == <<endpoint, message, language, chat_mode, ai_reply, confirmed_items>>
ai_vars == <<thread, result_container, join_outcome, result_source, intent_result>>

\* the dictionary the handler returns
\* (processed: transactions_processed / processed_count, when the key is there)
Response(success, text, intent, results, fast, processed) ==
  [success |-> success, message |-> text, intent |-> intent,
   business_results |-> results, fast_detection |-> fast, processed |-> processed]

\* except Exception (lines 751-757): the failure response
ErrorResponse(lang) ==
  Response(FALSE, <<"apology", IF lang = "hi" THEN "hi" ELSE "en">>, "error", << >>, FALSE, Absent)

(***************************************************************************)
(* The classifier payloads and item lists the model draws from.            *)
(***************************************************************************)
ItemIncome    == Item(Some("income"), Some(50000), Absent, Absent)
ItemNoAmount  == Item(Some("income"), Absent, Absent, Absent)
ItemNegative  == Item(Some("expense"), Some(-500), Absent, Absent)
ItemInventory == Item(Some("inventory"), Absent, Some("rice"), Some(2))
ItemNoIntent  == Item(Absent, Some(50000), Absent, Absent)

BatchItems == {ItemIncome, ItemNoAmount, ItemNegative, ItemInventory, ItemNoIntent}

RECURSIVE SeqsUpTo(_, _)
\* the sequences over S of length 0..n
SeqsUpTo(S, n) ==
  IF n = 0 THEN {<< >>}
  ELSE LET shorter == SeqsUpTo(S, n - 1)
       IN shorter \cup {Append(q, x) : q \in shorter, x \in S}

BatchPayload(items) ==
  Payload("dict", Some("multiple"), Absent, items, Absent, Some(AiText))

\* one payload of every shape the dispatch distinguishes
BasicReplies ==
  { Payload("hang", Absent, Absent, << >>, Absent, Absent),
    Payload("error", Absent, Absent, << >>, Absent, Absent),
    NoneResult,
    Payload("dict", Some("conversational"), Absent, << >>, Absent, Some(AiText)),
    Payload("dict", Some("item_clarification"), Absent, << >>, Absent, Some(AiText)),
    BatchPayload(<<ItemIncome>>),
    Payload("dict", Some("income"), Some("add"), << >>, Some(50000), Some(AiText)),
    Payload("dict", Some("expense"), Some("add"), << >>, Some(-500), Some(AiText)),
    Payload("dict", Some("expense"), Some("query"), << >>, Absent, Some(AiText)),
    Payload("dict", Some("income"), Some("add"), << >>, Absent, Absent),
    Payload("dict", Some("general"), Absent, << >>, Absent, Absent) }

BatchReplies ==
  BasicReplies \cup {BatchPayload(items) : items \in SeqsUpTo(BatchItems, MaxBatch) \ {<< >>}}

\* a few messages, one for each way a request starts
BatchMessages == {<<"income", "500">>, <<"clear", "all">>, <<"hello">>}

(***************************************************************************)
(* Initial states: one request, its inputs and the classifier's behaviour. *)
(***************************************************************************)
InitHandler ==
  /\ fast_i = 1
  /\ thread = "idle"
  /\ result_container = [result |-> NoneResult, error |-> FALSE]
  /\ join_outcome = "pending"
  /\ result_source = "none"
  /\ intent_result = NoneResult
  /\ item_k = 1
  /\ business_results = << >>
  /\ response_message = << >>
  /\ ledger_calls = << >>
  /\ ledger_reads = << >>
  /\ history_calls = << >>
  /\ response = << >>

\* a text request: any message, any classifier payload shape
Init ==
  /\ endpoint = "text"
  /\ message \in Messages
  /\ language \in Languages
  /\ chat_mode \in ChatModes
  /\ ai_reply \in BasicReplies
  /\ confirmed_items = << >>
  /\ pc = "fast"
  /\ InitHandler

\* a text request: a few messages, any classifier batch
InitBatch ==
  /\ endpoint = "text"
  /\ message \in BatchMessages
  /\ language \in {"en", "hi"}
  /\ chat_mode \in ChatModes
  /\ ai_reply \in BatchReplies
  /\ confirmed_items = << >>
  /\ pc = "fast"
  /\ InitHandler

\* a text request: a question, any classifier payload shape
InitQuery ==
  /\ endpoint = "text"
  /\ message \in QueryMessages
  /\ language \in Languages
  /\ chat_mode \in ChatModes
  /\ ai_reply \in BasicReplies
  /\ confirmed_items = << >>
  /\ pc = "fast"
  /\ InitHandler

\* a text request: a few messages, any classifier payload shape
InitLive ==
  /\ endpoint = "text"
  /\ message \in BatchMessages
  /\ language \in {"en", "hi"}
  /\ chat_mode \in ChatModes
  /\ ai_reply \in BasicReplies
  /\ confirmed_items = << >>
  /\ pc = "fast"
  /\ InitHandler

\* a text request: a message for the fallback responder, any classifier
\* payload shape
InitFallback ==
  /\ endpoint = "text"
  /\ message \in FallbackMessages
  /\ language \in Languages
  /\ chat_mode \in ChatModes
  /\ ai_reply \in BasicReplies
  /\ confirmed_items = << >>
  /\ pc = "fast"
  /\ InitHandler

\* a text request: a fast keyword and an amount
InitAmount ==
  /\ endpoint = "text"
  /\ message \in AmountMessages
  /\ language \in {"en", "hi"}
  /\ chat_mode \in ChatModes
  /\ ai_reply \in BasicReplies
  /\ confirmed_items = << >>
  /\ pc = "fast"
  /\ InitHandler

\* a text request: the messages about clear commands
InitClear ==
  /\ endpoint = "text"
  /\ message \in ClearMessages
  /\ language \in Languages
  /\ chat_mode \in ChatModes
  /\ ai_reply \in BasicReplies
  /\ confirmed_items = << >>
  /\ pc = "fast"
  /\ InitHandler

(***************************************************************************)
(* process_text_message, lines 318-326: the fast detection.                *)
(***************************************************************************)
\* the fast detection run in every chat mode
RunsFastDetectionAlways == TRUE

\* if chat_mode == "business"
RunsFastDetection == chat_mode = "business"

\* the else branch: general mode skips the transaction detection
SkipFastDetection ==
  /\ endpoint = "text" /\ pc = "fast"
  /\ ~RunsFastDetection
  /\ pc' = "clear"
  /\ UNCHANGED <<inputs, fast_i, ai_vars, item_k, business_results, response_message,
                 ledger_calls, ledger_reads, history_calls, response>>

\* One round of the for loop of _ultra_fast_transaction_detection, from
\* pattern fast_i on: the next pattern that matches is handled (the ledger
\* call, the history call, the return), or the loop ends and the function
\* returns None.
UltraFastTransactionDetection ==
  /\ endpoint = "text" /\ pc = "fast"
  /\ RunsFastDetection
  /\ LET j == NextMatch(message, fast_i)
     IN IF j = 0
        THEN /\ pc' = "clear"
             /\ UNCHANGED <<fast_i, ledger_calls, history_calls, response>>
        ELSE LET p      == patterns[j]
                 amount == MatchAmount(message, p)
                 op     == IF p.type = "income" THEN "add_income" ELSE "add_expense"
             IN IF amount > 0
                THEN \E lo \in LedgerOutcomes, ho \in HistoryOutcomes :
                       LET result == LedgerResult(op, lo)
                       IN /\ ledger_calls' =
                               Append(ledger_calls, LedgerCall(op, amount, "fast_detection"))
                          /\ CASE lo = "error" ->
                                    \* not a ValueError / KeyError: leaves the function
                                    /\ pc' = "done"
                                    /\ response' = Some(ErrorResponse(language))
                                    /\ UNCHANGED <<fast_i, history_calls>>
                               [] lo = "fail" ->
                                    \* result.get("success") is false: next pattern
                                    /\ fast_i' = j + 1
                                    /\ UNCHANGED <<pc, history_calls, response>>
                               [] lo = "ok" ->
                                    /\ history_calls' =
                                         Append(history_calls,
                                                HistoryCall(result.message, p.type, ho))
                                    /\ pc' = "done"
                                    /\ response' =
                                         IF ho = "ok"
                                         THEN Some(Response(TRUE, result.message, p.type,
                                                            <<result>>, TRUE, Some(1)))
                                         ELSE Some(ErrorResponse(language))
                                    /\ UNCHANGED fast_i
                ELSE \* amount > 0 is false: next pattern
                     /\ fast_i' = j + 1
                     /\ UNCHANGED <<pc, ledger_calls, history_calls, response>>
  /\ UNCHANGED <<inputs, ai_vars, item_k, business_results, response_message, ledger_reads>>

(***************************************************************************)
(* process_text_message, lines 328-421: the clear commands.                *)
(***************************************************************************)
\* the confirmation text of a clear command
\* a confirmation that is always the ledger's own message
ClearTextFromLedger(cmd, lang, result) == result.message

\* if language == "en" / "hi" / "ta" / "ml": the fixed text; else result["message"]
ClearText(cmd, lang, result) ==
  IF LangBranch(lang) = "other" THEN result.message ELSE <<"cleared", cmd, lang>>

\* a response that takes its success flag from the ledger's result
ClearResponseLedgerSuccess(cmd, lang, result) ==
  Response(result.success, ClearText(cmd, lang, result), cmd, <<result>>, FALSE, Absent)

\* the return of a clear branch: "success": True, the text, the intent, [result]
ClearResponse(cmd, lang, result) ==
  Response(TRUE, ClearText(cmd, lang, result), cmd, <<result>>, FALSE, Absent)

ClearCommands ==
  /\ endpoint = "text" /\ pc = "clear"
  /\ LET cmd == ClearCommand(message)
     IN IF cmd = "none"
        THEN /\ pc' = "start_ai"
             /\ UNCHANGED <<ledger_calls, response>>
        ELSE \E lo \in LedgerOutcomes :
               LET result == LedgerResult(ClearOp(cmd), lo)
               IN /\ ledger_calls' = Append(ledger_calls, LedgerCall(ClearOp(cmd), 0, "clear"))
                  /\ pc' = "done"
                  /\ response' =
                       IF lo = "error"
                       THEN Some(ErrorResponse(language))
                       ELSE Some(ClearResponse(cmd, language, result))
  /\ UNCHANGED <<inputs, fast_i, ai_vars, item_k, business_results, response_message,
                 ledger_reads, history_calls>>

(***************************************************************************)
(* process_text_message, lines 423-459: the classifier call on a thread,   *)
(* joined with a timeout of 15 seconds.                                    *)
(***************************************************************************)
\* thread.start() in a handler that comes back to start the thread again
StartAiThreadAgain ==
  /\ endpoint = "text" /\ pc = "start_ai"
  /\ thread' = "running"
  /\ pc' = IF thread = "idle" THEN "start_ai" ELSE "join"
  /\ UNCHANGED <<inputs, fast_i, result_container, join_outcome, result_source,
                 intent_result, item_k, business_results, response_message,
                 ledger_calls, ledger_reads, history_calls, response>>

\* thread.start()
StartAiThread ==
  /\ endpoint = "text" /\ pc = "start_ai"
  /\ thread' = "running"
  /\ pc' = "join"
  /\ UNCHANGED <<inputs, fast_i, result_container, join_outcome, result_source,
                 intent_result, item_k, business_results, response_message,
                 ledger_calls, ledger_reads, history_calls, response>>

\* ai_processing_thread: parse_intent returns or raises, and the container
\* is written; a call that hangs never gets here
AiProcessingThread ==
  /\ thread = "running"
  /\ ai_reply.kind # "hang"
  /\ result_container' =
       IF ai_reply.kind = "error"
       THEN [result_container EXCEPT !.error = TRUE]
       ELSE [result_container EXCEPT !.result = ai_reply]
  /\ thread' = "finished"
  /\ UNCHANGED <<inputs, pc, fast_i, join_outcome, result_source, intent_result, item_k,
                 business_results, response_message, ledger_calls, ledger_reads,
                 history_calls, response>>

\* the thread function has returned: is_alive() is false from here on
AiThreadExit ==
  /\ thread = "finished"
  /\ thread' = "dead"
  /\ UNCHANGED <<inputs, pc, fast_i, result_container, join_outcome, result_source,
                 intent_result, item_k, business_results, response_message,
                 ledger_calls, ledger_reads, history_calls, response>>

\* thread.join(timeout=15) returns because the thread has ended
JoinThreadEnded ==
  /\ endpoint = "text" /\ pc = "join"
  /\ thread = "dead"
  /\ join_outcome' = "thread_ended"
  /\ pc' = "check"
  /\ UNCHANGED <<inputs, fast_i, thread, result_container, result_source, intent_result,
                 item_k, business_results, response_message, ledger_calls, ledger_reads,
                 history_calls, response>>

\* thread.join() with no timeout: it never returns before the thread ends
JoinWithoutTimeout ==
  /\ endpoint = "text" /\ pc = "join"
  /\ FALSE
  /\ UNCHANGED vars

\* thread.join(timeout=15) returns because the 15 seconds have passed; what
\* the container held at that moment is kept in join_outcome
JoinTimeout ==
  /\ endpoint = "text" /\ pc = "join"
  /\ thread # "dead"
  /\ join_outcome' = IF thread = "running" THEN "timeout_no_result"
                     ELSE "timeout_result_written"
  /\ pc' = "check"
  /\ UNCHANGED <<inputs, fast_i, thread, result_container, result_source, intent_result,
                 item_k, business_results, response_message, ledger_calls, ledger_reads,
                 history_calls, response>>

\* lines 446-459: thread.is_alive(), result_container["error"], the result
CheckThread ==
  /\ endpoint = "text" /\ pc = "check"
  /\ IF thread # "dead"
     THEN /\ intent_result' = SmartFallbackResponse(message, language)
          /\ result_source' = "fallback_timeout"
     ELSE IF result_container.error
     THEN /\ intent_result' = SmartFallbackResponse(message, language)
          /\ result_source' = "fallback_error"
     ELSE /\ intent_result' = result_container.result
          /\ result_source' = "classifier"
  /\ pc' = "dispatch"
  /\ UNCHANGED <<inputs, fast_i, thread, result_container, join_outcome, item_k,
                 business_results, response_message, ledger_calls, ledger_reads,
                 history_calls, response>>

(***************************************************************************)
(* process_text_message, lines 461-583: the dispatch on intent_result.     *)
(***************************************************************************)
\* dict.get(key, default)
Get(opt, default) == IF opt = Absent THEN default ELSE opt[1]

\* which branch of lines 462-585 the dictionary takes; None has no .get
Branch(ir) ==
  IF ir.kind # "dict" THEN "not_a_dict"
  ELSE IF ir.intent \in {Some("conversational"), Some("off_topic")} THEN "conversational"
  ELSE IF ir.intent = Some("item_clarification") THEN "item_clarification"
  ELSE IF ir.transactions # << >> THEN "transactions"
  ELSE IF ir.intent = Some("income") /\ ir.action = Some("add") THEN "income_add"
  ELSE IF ir.intent = Some("expense") /\ ir.action = Some("add") THEN "expense_add"
  ELSE "query"

\* intent_result.get("primary_intent", intent_result.get("intent", "general"))
ReportedIntent(ir) == Get(ir.primary_intent, Get(ir.intent, "general"))

\* line 462 on a result that is None: AttributeError, caught at line 751
ResultNotADict ==
  /\ endpoint = "text" /\ pc = "dispatch"
  /\ Branch(intent_result) = "not_a_dict"
  /\ pc' = "done"
  /\ response' = Some(ErrorResponse(language))
  /\ UNCHANGED <<inputs, fast_i, ai_vars, item_k, business_results, response_message,
                 ledger_calls, ledger_reads, history_calls>>

\* lines 462-485 and 488-511: conversational, off_topic, item_clarification
ConversationalResponse ==
  /\ endpoint = "text" /\ pc = "dispatch"
  /\ Branch(intent_result) \in {"conversational", "item_clarification"}
  /\ LET text == Get(intent_result.response_message,
                     <<"default", Branch(intent_result)>>)
         intent == intent_result.intent[1]
     IN \E ho \in HistoryOutcomes :
          /\ history_calls' = Append(history_calls, HistoryCall(text, intent, ho))
          /\ response' = IF ho = "ok"
                         THEN Some(Response(TRUE, text, intent, << >>, FALSE, Absent))
                         ELSE Some(ErrorResponse(language))
  /\ pc' = "done"
  /\ UNCHANGED <<inputs, fast_i, ai_vars, item_k, business_results, response_message,
                 ledger_calls, ledger_reads>>

\* the ledger operation lines 520-549 choose for one transaction ("skip":
\* no branch of the if / elif chain is taken)
TransactionOp(t) ==
  IF t.intent = Some("income") /\ Truthy(t.amount) THEN "add_income"
  ELSE IF t.intent = Some("expense") /\ Truthy(t.amount) THEN "add_expense"
  ELSE IF t.intent = Some("inventory") /\ t.product_name # Absent /\ Truthy(t.quantity)
  THEN "add_inventory_item"
  ELSE "skip"

\* the amount (or quantity) passed to that operation
TransactionAmount(t) ==
  IF t.intent = Some("inventory") THEN t.quantity[1] ELSE t.amount[1]

\* one round of the for loop of lines 519-549
ProcessTransaction ==
  /\ endpoint = "text" /\ pc = "dispatch"
  /\ Branch(intent_result) = "transactions"
  /\ item_k <= Len(intent_result.transactions)
  /\ LET t  == intent_result.transactions[item_k]
         op == TransactionOp(t)
     IN IF t.intent = Absent
        THEN \* transaction["intent"]: KeyError, caught at line 751
             /\ pc' = "done"
             /\ response' = Some(ErrorResponse(language))
             /\ UNCHANGED <<item_k, business_results, ledger_calls>>
        ELSE IF op = "skip"
        THEN /\ item_k' = item_k + 1
             /\ UNCHANGED <<pc, response, business_results, ledger_calls>>
        ELSE \E lo \in LedgerOutcomes :
               /\ ledger_calls' =
                    Append(ledger_calls, LedgerCall(op, TransactionAmount(t), "text"))
               /\ IF lo = "error"
                  THEN /\ pc' = "done"
                       /\ response' = Some(ErrorResponse(language))
                       /\ UNCHANGED <<item_k, business_results>>
                  ELSE /\ business_results' =
                            Append(business_results, LedgerResult(op, lo))
                       /\ item_k' = item_k + 1
                       /\ UNCHANGED <<pc, response>>
  /\ UNCHANGED <<inputs, fast_i, ai_vars, response_message, ledger_reads, history_calls>>

\* lines 552-555: the response message of a batch with these results
BatchMessage(ir, results) ==
  IF results # << >>
  THEN Get(ir.response_message, <<"transactions_processed">>)
  ELSE Get(ir.response_message, <<"no_valid_transactions">>)

\* lines 551-555, after the loop
TransactionsMessage ==
  /\ endpoint = "text" /\ pc = "dispatch"
  /\ Branch(intent_result) = "transactions"
  /\ item_k > Len(intent_result.transactions)
  /\ response_message' = BatchMessage(intent_result, business_results)
  /\ pc' = "save"
  /\ UNCHANGED <<inputs, fast_i, ai_vars, item_k, business_results, ledger_calls,
                 ledger_reads, history_calls, response>>

\* lines 558-583: the old single-transaction format
SingleTransaction ==
  /\ endpoint = "text" /\ pc = "dispatch"
  /\ Branch(intent_result) \in {"income_add", "expense_add"}
  /\ LET op == IF Branch(intent_result) = "income_add" THEN "add_income" ELSE "add_expense"
     IN IF Truthy(intent_result.data_amount)
        THEN \E lo \in LedgerOutcomes :
               /\ ledger_calls' =
                    Append(ledger_calls, LedgerCall(op, intent_result.data_amount[1], "text"))
               /\ IF lo = "error"
                  THEN /\ pc' = "done"
                       /\ response' = Some(ErrorResponse(language))
                       /\ UNCHANGED <<business_results, response_message>>
                  ELSE /\ business_results' =
                            Append(business_results, LedgerResult(op, lo))
                       /\ response_message' = LedgerResult(op, lo).message
                       /\ pc' = "save"
                       /\ UNCHANGED response
        ELSE /\ pc' = "save"
             /\ UNCHANGED <<ledger_calls, business_results, response_message, response>>
  /\ UNCHANGED <<inputs, fast_i, ai_vars, item_k, ledger_reads, history_calls>>

(***************************************************************************)
(* process_text_message, lines 585-731: queries.                           *)
(* Tamil and Malayalam keywords carry the suffixes _ta and _ml.            *)
(***************************************************************************)
DirectProfitWords ==
  {"profit", "loss", "laabh", "haani", "nuksaan", "fayda",
   "ilaabam_ta", "nashtam_ta", "laabam_ta", "laabham_ml", "nashtam_ml", "kaash_ml",
   "panam_ml"}
\* a direct income list with the Hindi words only
DirectIncomeWordsHindiOnly == {"aay", "kamai"}
DirectIncomeWords ==
  {"income", "revenue", "aay", "kamai", "varumanam_ta", "varuvay_ta", "sambadhanai_ta",
   "varumanam_ml", "sambadyam_ml", "company_ml"}
DirectExpenseWords ==
  {"expense", "spending", "kharch", "kharcha", "selavu_ta", "vyay", "chelavu_ml",
   "panam_ml"}
QueryProfitWords == {"profit", "loss", "laabh", "haani", "nuksaan", "fayda"}
QueryIncomeWords == {"income", "aay", "kamai", "revenue"}
QueryExpenseWords == {"expense", "kharch", "kharcha", "spending"}

\* "today" in query_message or "aaj" in query_message
Today(msg) == AnyWord(msg, {"today", "aaj"})

\* the chain with the income and expense checks before the profit / loss
\* check
QueryBranchIncomeFirst(msg, ir) ==
  IF AnyWord(msg, DirectIncomeWords) /\ ~Today(msg) THEN "direct_income"
  ELSE IF AnyWord(msg, DirectExpenseWords) /\ ~Today(msg) THEN "direct_expense"
  ELSE IF AnyWord(msg, DirectProfitWords) THEN "direct_profit"
  ELSE "general"

\* the branch of the if / elif chain of lines 592-731
QueryBranch(msg, ir) ==
  IF AnyWord(msg, DirectProfitWords) THEN "direct_profit"
  ELSE IF AnyWord(msg, DirectIncomeWords) /\ ~Today(msg) THEN "direct_income"
  ELSE IF AnyWord(msg, DirectExpenseWords) /\ ~Today(msg) THEN "direct_expense"
  ELSE IF ir.action = Some("query")
  THEN IF AnyWord(msg, {"expense"}) /\ Today(msg) THEN "today_expense"
       ELSE IF AnyWord(msg, {"income"}) /\ Today(msg) THEN "today_income"
       ELSE IF AnyWord(msg, QueryProfitWords) THEN "query_profit"
       ELSE IF AnyWord(msg, QueryIncomeWords) /\ ~Today(msg) THEN "query_income"
       ELSE IF AnyWord(msg, QueryExpenseWords) /\ ~Today(msg) THEN "query_expense"
       ELSE "query_other"
  ELSE "general"

\* the ledger read of each branch ("none": the branch reads nothing)
QueryRead(branch) ==
  CASE branch \in {"direct_profit", "query_profit"}   -> "get_profit_loss_summary"
    [] branch \in {"direct_income", "query_income"}   -> "get_income_summary"
    [] branch \in {"direct_expense", "query_expense"} -> "get_expense_summary"
    [] branch = "today_expense"                       -> "get_today_expenses"
    [] OTHER                                          -> "none"

\* what a read can give: a raised error, success false, or the aggregate
\* (for the totals: zero or positive)
ReadOutcomes(read) ==
  CASE read = "get_profit_loss_summary" -> {"error", "fail", "ok"}
    [] read = "none"                    -> {"none"}
    [] OTHER                            -> {"error", "fail", "zero", "positive"}

\* the net_profit a profit / loss summary can carry, in hundredths
NetProfits == {-60000, 0, 60000}

\* one aggregate read and what it gave
LedgerRead(read, outcome, net) == [read |-> read, outcome |-> outcome, net_profit |-> net]

\* a template choice that takes a net profit of zero as a profit
ProfitFamilyNonNegative(net) ==
  IF net >= 0 THEN "profit" ELSE "loss"

\* if net_profit > 0 / elif net_profit < 0 / else
ProfitFamily(net) ==
  IF net > 0 THEN "profit"
  ELSE IF net < 0 THEN "loss"
  ELSE "break_even"

HiOrEn(lang) == IF lang = "hi" THEN "hi" ELSE "en"

\* the language branch of the profit / loss templates
ProfitLang(branch, lang) ==
  IF branch = "direct_profit"
  THEN (IF lang \in {"hi", "ta", "ml"} THEN lang ELSE "en")
  ELSE HiOrEn(lang)

\* the response text of a query branch for the outcome of its read
QueryText(branch, outcome, net, ir, lang) ==
  CASE branch \in {"direct_profit", "query_profit"} ->
         IF outcome = "fail" THEN <<"profit_loss_trouble", HiOrEn(lang)>>
         ELSE <<"profit_loss", ProfitFamily(net), ProfitLang(branch, lang)>>
    [] branch \in {"direct_income", "query_income"} ->
         IF outcome = "positive" THEN <<"total_income", HiOrEn(lang)>>
         ELSE <<"no_income_recorded", HiOrEn(lang)>>
    [] branch \in {"direct_expense", "query_expense"} ->
         IF outcome = "positive" THEN <<"total_expenses", HiOrEn(lang)>>
         ELSE <<"no_expenses_recorded", HiOrEn(lang)>>
    [] branch = "today_expense" ->
         IF outcome = "positive" THEN <<"today_expense", HiOrEn(lang)>>
         ELSE <<"no_expenses_today", HiOrEn(lang)>>
    [] branch = "today_income" ->
         Get(ir.response_message, <<"income_query_coming_soon">>)
    [] OTHER -> Get(ir.response_message, <<"here_to_help">>)

HandleQuery ==
  /\ endpoint = "text" /\ pc = "dispatch"
  /\ Branch(intent_result) = "query"
  /\ LET branch == QueryBranch(message, intent_result)
         read   == QueryRead(branch)
     IN \E outcome \in ReadOutcomes(read),
           net \in IF read = "get_profit_loss_summary" THEN NetProfits ELSE {0} :
          /\ ledger_reads' = IF read = "none" THEN ledger_reads
                             ELSE Append(ledger_reads, LedgerRead(read, outcome, net))
          /\ IF outcome = "error"
             THEN /\ pc' = "done"
                  /\ response' = Some(ErrorResponse(language))
                  /\ UNCHANGED response_message
             ELSE /\ response_message' =
                       QueryText(branch, outcome, net, intent_result, language)
                  /\ pc' = "save"
                  /\ UNCHANGED response
  /\ UNCHANGED <<inputs, fast_i, ai_vars, item_k, business_results, ledger_calls,
                 history_calls>>

(***************************************************************************)
(* process_text_message, lines 733-749: the history record and the return. *)
(***************************************************************************)
SaveAndReturn ==
  /\ endpoint = "text" /\ pc = "save"
  /\ LET intent == ReportedIntent(intent_result)
     IN \E ho \in HistoryOutcomes :
          /\ history_calls' = Append(history_calls, HistoryCall(response_message, intent, ho))
          /\ response' = IF ho = "ok"
                         THEN Some(Response(TRUE, response_message, intent,
                                            business_results, FALSE,
                                            Some(Len(business_results))))
                         ELSE Some(ErrorResponse(language))
  /\ pc' = "done"
  /\ UNCHANGED <<inputs, fast_i, ai_vars, item_k, business_results, response_message,
                 ledger_calls, ledger_reads>>

(***************************************************************************)
(* The text pipeline.                                                      *)
(***************************************************************************)
Next ==
  \/ SkipFastDetection
  \/ UltraFastTransactionDetection
  \/ ClearCommands
  \/ StartAiThread
  \/ AiProcessingThread
  \/ AiThreadExit
  \/ JoinThreadEnded
  \/ JoinTimeout
  \/ CheckThread
  \/ ResultNotADict
  \/ ConversationalResponse
  \/ ProcessTransaction
  \/ TransactionsMessage
  \/ SingleTransaction
  \/ HandleQuery
  \/ SaveAndReturn

Spec == Init /\ [][Next]_vars

SpecBatch == InitBatch /\ [][Next]_vars

SpecClear == InitClear /\ [][Next]_vars

SpecQuery == InitQuery /\ [][Next]_vars

SpecFallback == InitFallback /\ [][Next]_vars

SpecAmount == InitAmount /\ [][Next]_vars

\* the steps of the request handler after the fast detection: sequential
\* code that keeps running; thread.join(timeout=15) returns after 15 seconds
\* at the latest
HandlerStep ==
  \/ ClearCommands
  \/ StartAiThread
  \/ JoinThreadEnded
  \/ JoinTimeout
  \/ CheckThread
  \/ ResultNotADict
  \/ ConversationalResponse
  \/ ProcessTransaction
  \/ TransactionsMessage
  \/ SingleTransaction
  \/ HandleQuery
  \/ SaveAndReturn

\* The handler is scheduled fairly; nothing is assumed of the classifier
\* thread, which may never write its result.
SpecLive == InitLive /\ [][Next]_vars /\ WF_vars(HandlerStep)

(***************************************************************************)
(* confirm_items, lines 1449-1529.                                         *)
(***************************************************************************)
\* one entry of data["items"]; numeric is false when quantity, amount or
\* cost_per_unit is not a number, so that float() raises
ConfirmedItem(category, amount, quantity, numeric) ==
  [category |-> category, amount |-> amount, quantity |-> quantity, numeric |-> numeric]

ConfirmItems ==
  { ConfirmedItem(Some("income"), Some(50000), Absent, TRUE),
    ConfirmedItem(Absent, Absent, Absent, TRUE),
    ConfirmedItem(Some("expense"), Some(-500), Some(2), TRUE),
    ConfirmedItem(Some("inventory"), Absent, Some(2), TRUE),
    ConfirmedItem(Some("other"), Some(50000), Absent, TRUE),
    ConfirmedItem(Some("income"), Absent, Absent, FALSE) }

InitConfirm ==
  /\ endpoint = "confirm"
  /\ message = << >>
  /\ language = "en"
  /\ chat_mode = "general"
  /\ ai_reply = NoneResult
  /\ confirmed_items \in SeqsUpTo(ConfirmItems, MaxConfirm)
  /\ pc = "items"
  /\ InitHandler

\* the ledger operation of lines 1472-1502 for one item
ConfirmOp(item) ==
  LET category == Get(item.category, "expense")
  IN CASE category = "income"    -> "add_income"
       [] category = "expense"   -> "add_expense"
       [] category = "inventory" -> "add_inventory_item"
       [] OTHER                  -> "skip"

\* the amount (or quantity) passed to that operation
ConfirmAmount(item) ==
  IF Get(item.category, "expense") = "inventory"
  THEN Get(item.quantity, 1)
  ELSE Get(item.amount, 0)

\* one round of the for loop of lines 1464-1502
ConfirmItem ==
  /\ endpoint = "confirm" /\ pc = "items"
  /\ item_k <= Len(confirmed_items)
  /\ LET item == confirmed_items[item_k]
         op   == ConfirmOp(item)
     IN IF ~item.numeric
        THEN \* float(): ValueError, caught at line 1524
             /\ pc' = "done"
             /\ response' = Some(Response(FALSE, <<"error_processing_items">>, "error",
                                          << >>, FALSE, Absent))
             /\ UNCHANGED <<item_k, business_results, ledger_calls>>
        ELSE IF op = "skip"
        THEN /\ item_k' = item_k + 1
             /\ UNCHANGED <<pc, response, business_results, ledger_calls>>
        ELSE \E lo \in LedgerOutcomes :
               /\ ledger_calls' =
                    Append(ledger_calls, LedgerCall(op, ConfirmAmount(item), "user_confirmed"))
               /\ IF lo = "error"
                  THEN /\ pc' = "done"
                       /\ response' = Some(Response(FALSE, <<"error_processing_items">>,
                                                    "error", << >>, FALSE, Absent))
                       /\ UNCHANGED <<item_k, business_results>>
                  ELSE /\ business_results' =
                            Append(business_results, LedgerResult(op, lo))
                       /\ item_k' = item_k + 1
                       /\ UNCHANGED <<pc, response>>
  /\ UNCHANGED <<inputs, fast_i, ai_vars, response_message, ledger_reads, history_calls>>

\* len([r for r in business_results if r.get("success", False)])
SuccessCount(results) == Cardinality({i \in 1..Len(results) : results[i].success})

\* lines 1504-1522: the summary, the history record and the return
ConfirmSummary ==
  /\ endpoint = "confirm" /\ pc = "items"
  /\ item_k > Len(confirmed_items)
  /\ \E ho \in HistoryOutcomes :
       /\ history_calls' =
            Append(history_calls, HistoryCall(<<"processed_items">>, "item_confirmation", ho))
       /\ response' =
            IF ho = "ok"
            THEN Some(Response(TRUE, <<"processed_items">>, "item_confirmation",
                               business_results, FALSE,
                               Some(SuccessCount(business_results))))
            ELSE Some(Response(FALSE, <<"error_processing_items">>, "error", << >>,
                               FALSE, Absent))
  /\ pc' = "done"
  /\ response_message' = <<"processed_items">>
  /\ UNCHANGED <<inputs, fast_i, ai_vars, item_k, business_results, ledger_calls,
                 ledger_reads>>

NextConfirm ==
  \/ ConfirmItem
  \/ ConfirmSummary

SpecConfirm == InitConfirm /\ [][NextConfirm]_vars

(***************************************************************************)
(* process_voice_message, lines 759-910. The message of a voice request is *)
(* the text the transcription gives (empty: nothing was understood).       *)
(***************************************************************************)
VoiceTexts == { << >>, <<"hello">>, <<"expense", "today">>, <<"income", "500">> }

InitVoice ==
  /\ endpoint = "voice"
  /\ message \in VoiceTexts
  /\ language \in {"hi", "en"}
  /\ chat_mode = "general"
  /\ ai_reply \in BasicReplies
  /\ confirmed_items = << >>
  /\ pc = "transcribe"
  /\ InitHandler

\* except Exception (lines 904-910): the failure response
VoiceErrorResponse(lang) ==
  Response(FALSE, <<"voice_error", HiOrEn(lang)>>, "error", << >>, FALSE, Absent)

\* lines 780-788: the transcription, which returns or raises
VoiceTranscribe ==
  /\ endpoint = "voice" /\ pc = "transcribe"
  /\ \E outcome \in {"ok", "error"} :
       IF outcome = "error"
       THEN /\ pc' = "done"
            /\ response' = Some(VoiceErrorResponse(language))
       ELSE IF message = << >>
       THEN /\ pc' = "done"
            /\ response' = Some(Response(FALSE, <<"could_not_understand", HiOrEn(language)>>,
                                         "none", << >>, FALSE, Absent))
       ELSE /\ pc' = "voice_ai"
            /\ UNCHANGED response
  /\ UNCHANGED <<inputs, fast_i, ai_vars, item_k, business_results, response_message,
                 ledger_calls, ledger_reads, history_calls>>

\* line 791: ai_processor.parse_intent, called directly: it returns, raises
\* (caught at line 904), or never returns
VoiceParseIntent ==
  /\ endpoint = "voice" /\ pc = "voice_ai"
  /\ ai_reply.kind # "hang"
  /\ IF ai_reply.kind = "error"
     THEN /\ pc' = "done"
          /\ response' = Some(VoiceErrorResponse(language))
          /\ UNCHANGED <<intent_result, result_source>>
     ELSE /\ intent_result' = ai_reply
          /\ result_source' = "classifier"
          /\ pc' = "voice_dispatch"
          /\ UNCHANGED response
  /\ UNCHANGED <<inputs, fast_i, thread, result_container, join_outcome, item_k,
                 business_results, response_message, ledger_calls, ledger_reads,
                 history_calls>>

\* which branch of lines 801-881 the dictionary takes
VoiceBranch(ir) ==
  IF ir.kind # "dict" THEN "not_a_dict"
  ELSE IF ir.transactions # << >> THEN "transactions"
  ELSE IF ir.intent = Some("income") /\ ir.action = Some("add") THEN "income_add"
  ELSE IF ir.intent = Some("expense") /\ ir.action = Some("add") THEN "expense_add"
  ELSE "query"

\* line 801 on a result that is None: TypeError, caught at line 904
VoiceResultNotADict ==
  /\ endpoint = "voice" /\ pc = "voice_dispatch"
  /\ VoiceBranch(intent_result) = "not_a_dict"
  /\ pc' = "done"
  /\ response' = Some(VoiceErrorResponse(language))
  /\ UNCHANGED <<inputs, fast_i, ai_vars, item_k, business_results, response_message,
                 ledger_calls, ledger_reads, history_calls>>

\* one round of the for loop of lines 802-832
VoiceProcessTransaction ==
  /\ endpoint = "voice" /\ pc = "voice_dispatch"
  /\ VoiceBranch(intent_result) = "transactions"
  /\ item_k <= Len(intent_result.transactions)
  /\ LET t  == intent_result.transactions[item_k]
         op == TransactionOp(t)
     IN IF t.intent = Absent
        THEN /\ pc' = "done"
             /\ response' = Some(VoiceErrorResponse(language))
             /\ UNCHANGED <<item_k, business_results, ledger_calls>>
        ELSE IF op = "skip"
        THEN /\ item_k' = item_k + 1
             /\ UNCHANGED <<pc, response, business_results, ledger_calls>>
        ELSE \E lo \in LedgerOutcomes :
               /\ ledger_calls' =
                    Append(ledger_calls, LedgerCall(op, TransactionAmount(t), "voice"))
               /\ IF lo = "error"
                  THEN /\ pc' = "done"
                       /\ response' = Some(VoiceErrorResponse(language))
                       /\ UNCHANGED <<item_k, business_results>>
                  ELSE /\ business_results' =
                            Append(business_results, LedgerResult(op, lo))
                       /\ item_k' = item_k + 1
                       /\ UNCHANGED <<pc, response>>
  /\ UNCHANGED <<inputs, fast_i, ai_vars, response_message, ledger_reads, history_calls>>

\* lines 834-838, after the loop
VoiceTransactionsMessage ==
  /\ endpoint = "voice" /\ pc = "voice_dispatch"
  /\ VoiceBranch(intent_result) = "transactions"
  /\ item_k > Len(intent_result.transactions)
  /\ response_message' = BatchMessage(intent_result, business_results)
  /\ pc' = "voice_save"
  /\ UNCHANGED <<inputs, fast_i, ai_vars, item_k, business_results, ledger_calls,
                 ledger_reads, history_calls, response>>

\* lines 841-865: the old single-transaction format
VoiceSingleTransaction ==
  /\ endpoint = "voice" /\ pc = "voice_dispatch"
  /\ VoiceBranch(intent_result) \in {"income_add", "expense_add"}
  /\ LET op == IF VoiceBranch(intent_result) = "income_add"
               THEN "add_income" ELSE "add_expense"
     IN IF Truthy(intent_result.data_amount)
        THEN \E lo \in LedgerOutcomes :
               /\ ledger_calls' =
                    Append(ledger_calls, LedgerCall(op, intent_result.data_amount[1], "voice"))
               /\ IF lo = "error"
                  THEN /\ pc' = "done"
                       /\ response' = Some(VoiceErrorResponse(language))
                       /\ UNCHANGED <<business_results, response_message>>
                  ELSE /\ business_results' =
                            Append(business_results, LedgerResult(op, lo))
                       /\ response_message' = LedgerResult(op, lo).message
                       /\ pc' = "voice_save"
                       /\ UNCHANGED response
        ELSE /\ pc' = "voice_save"
             /\ UNCHANGED <<ledger_calls, business_results, response_message, response>>
  /\ UNCHANGED <<inputs, fast_i, ai_vars, item_k, ledger_reads, history_calls>>

\* lines 867-881: queries
VoiceHandleQuery ==
  /\ endpoint = "voice" /\ pc = "voice_dispatch"
  /\ VoiceBranch(intent_result) = "query"
  /\ IF intent_result.action = Some("query") /\ AnyWord(message, {"expense"})
        /\ Today(message)
     THEN \E outcome \in {"error", "fail", "zero", "positive"} :
            /\ ledger_reads' =
                 Append(ledger_reads, LedgerRead("get_today_expenses", outcome, 0))
            /\ IF outcome = "error"
               THEN /\ pc' = "done"
                    /\ response' = Some(VoiceErrorResponse(language))
                    /\ UNCHANGED response_message
               ELSE /\ response_message' =
                         (IF outcome = "positive"
                          THEN <<"today_expense", HiOrEn(language)>>
                          ELSE <<"no_expenses_today", HiOrEn(language)>>)
                    /\ pc' = "voice_save"
                    /\ UNCHANGED response
     ELSE /\ response_message' = Get(intent_result.response_message, <<"here_to_help">>)
          /\ pc' = "voice_save"
          /\ UNCHANGED <<ledger_reads, response>>
  /\ UNCHANGED <<inputs, fast_i, ai_vars, item_k, business_results, ledger_calls,
                 history_calls>>

\* lines 883-901: the history record and the return
VoiceSaveAndReturn ==
  /\ endpoint = "voice" /\ pc = "voice_save"
  /\ LET intent == ReportedIntent(intent_result)
     IN \E ho \in HistoryOutcomes :
          /\ history_calls' = Append(history_calls, HistoryCall(response_message, intent, ho))
          /\ response' = IF ho = "ok"
                         THEN Some(Response(TRUE, response_message, intent,
                                            business_results, FALSE,
                                            Some(Len(business_results))))
                         ELSE Some(VoiceErrorResponse(language))
  /\ pc' = "done"
  /\ UNCHANGED <<inputs, fast_i, ai_vars, item_k, business_results, response_message,
                 ledger_calls, ledger_reads>>

NextVoice ==
  \/ VoiceTranscribe
  \/ VoiceParseIntent
  \/ VoiceResultNotADict
  \/ VoiceProcessTransaction
  \/ VoiceTransactionsMessage
  \/ VoiceSingleTransaction
  \/ VoiceHandleQuery
  \/ VoiceSaveAndReturn

SpecVoice == InitVoice /\ [][NextVoice]_vars

(***************************************************************************)
(* Properties.                                                             *)
(***************************************************************************)
\* the request has returned
Returned == pc = "done" /\ response # << >>

\* every save_chat_history call made so far returned
HistoryReturned == \A i \in 1..Len(history_calls) : history_calls[i].recorded

WriteOps == {"add_income", "add_expense", "add_inventory_item"}

FastCalls == SelectSeq(ledger_calls, LAMBDA c : c.source = "fast_detection")
ClearCalls == SelectSeq(ledger_calls, LAMBDA c : c.source = "clear")

\* the names of the aggregate reads made so far, in order
ReadNames == [i \in 1..Len(ledger_reads) |-> ledger_reads[i].read]

\* the response that carries the fallback responder's output
FallbackAnswer ==
  Response(TRUE, <<"fallback", FallbackCategory(message), LangBranch(language)>>,
           "conversational", << >>, FALSE, Absent)

\* C1: if the classifier has produced no result when the 15-second wait
\* expires, no ledger operation follows for the request (the only ledger
\* calls are those the fast detection made before the classifier was
\* started), and the request is answered with the fallback responder's
\* output, success true and intent conversational (stated for the runs in
\* which the history call returns).
C1_TimeoutAnsweredByFallback ==
  join_outcome = "timeout_no_result" =>
    /\ \A i \in 1..Len(ledger_calls) : ledger_calls[i].source = "fast_detection"
    /\ (Returned /\ HistoryReturned) => response = Some(FallbackAnswer)

\* C2: the timeout wins ties: a classifier result written after the wait
\* has expired is never taken as the request's classification.
C2_TimeoutWinsTies ==
  join_outcome = "timeout_no_result" => result_source # "classifier"

\* C3: a classifier call that raises, or that returns no dictionary, is
\* handled like a timeout: the dispatch works on the fallback responder's
\* output and the response has success true (stated for the runs in which
\* the history call returns).
C3_ClassifierFailureIsFallback ==
  (ai_reply.kind \in {"error", "none"} /\ result_source # "none") =>
    /\ intent_result = SmartFallbackResponse(message, language)
    /\ (Returned /\ HistoryReturned) => response = Some(FallbackAnswer)

\* C4: the fast path issues at most one ledger write for one message.
C4_FastPathWritesOnce ==
  Len(FastCalls) <= 1

\* C5: first match wins: the transaction the fast path applies is the one
\* of the earliest pattern in list order that matches the message (stated
\* for the first ledger write of the fast path, which no earlier ledger
\* result can have influenced).
C5_FirstMatchWins ==
  FastCalls # << >> =>
    LET p == patterns[NextMatch(message, 1)]
    IN /\ FastCalls[1].op = (IF p.type = "income" THEN "add_income" ELSE "add_expense")
       /\ FastCalls[1].amount = MatchAmount(message, p)

\* C6 (as claimed): when chat mode is not business, no ledger write and no
\* clear operation is performed before the classifier is invoked.
C6_NonBusinessSkipsFastAndClear ==
  (chat_mode # "business" /\ thread = "idle") => ledger_calls = << >>

\* C6 (amended): when chat mode is not business, the fast detection is
\* skipped: it makes no ledger write, for any message; the only ledger
\* operation performed before the classifier is invoked is the clear
\* operation of a clear command, which is interpreted in every chat mode.
C6_NonBusinessSkipsFastDetection ==
  chat_mode # "business" =>
    /\ FastCalls = << >>
    /\ thread = "idle" => \A i \in 1..Len(ledger_calls) : ledger_calls[i].source = "clear"

\* C6 witness: a message with a fast pattern and a positive amount, in
\* general mode, has reached the classifier with no ledger call made.
C6_Witness ==
  /\ chat_mode = "general"
  /\ NextMatch(message, 1) > 0
  /\ MatchAmount(message, patterns[NextMatch(message, 1)]) > 0
  /\ pc = "join"
  /\ ledger_calls = << >>

\* C7: a batch of N items yields N outcomes, the i-th outcome belonging to
\* the i-th item.
C7_OneOutcomePerItem ==
  (Returned /\ response[1].success /\ Branch(intent_result) = "transactions") =>
    LET items == intent_result.transactions
        outcomes == response[1].business_results
    IN /\ Len(outcomes) = Len(items)
       /\ \A i \in 1..Len(outcomes) :
            outcomes[i].message[2] = TransactionOp(items[i])

\* C8: a failure on one item of a batch never prevents the later items from
\* being attempted: when the request has returned, the loop has reached the
\* last item.
C8_EveryItemAttempted ==
  (Returned /\ pc = "done" /\ Branch(intent_result) = "transactions") =>
    item_k >= Len(intent_result.transactions)

\* C9: no credit-income, debit-expense or adjust-inventory operation is
\* invoked with an amount or quantity that is zero or negative.
C9_PositiveAmounts ==
  \A i \in 1..Len(ledger_calls) :
    ledger_calls[i].op \in WriteOps => ledger_calls[i].amount > 0

\* the clear commands whose phrase set the message matches
MatchedCommands(msg) ==
  {c \in {"expense_clear", "income_clear", "chat_clear", "all_clear"} :
     AnyPhrase(msg, CASE c = "expense_clear" -> ExpensePhrases
                      [] c = "income_clear"  -> IncomePhrases
                      [] c = "chat_clear"    -> ChatPhrases
                      [] c = "all_clear"     -> AllPhrases)}

\* the first of the matched commands in the order expenses, income, chat, all
FirstCommand(msg) ==
  LET m == MatchedCommands(msg)
  IN IF "expense_clear" \in m THEN "expense_clear"
     ELSE IF "income_clear" \in m THEN "income_clear"
     ELSE IF "chat_clear" \in m THEN "chat_clear"
     ELSE "all_clear"

\* the fast detection ended the request: it returned the response, or an
\* error raised in it did
FastPathEnded ==
  /\ Returned
  /\ \/ response[1].fast_detection
     \/ /\ ~response[1].success
        /\ ledger_calls # << >>
        /\ ledger_calls[Len(ledger_calls)].source = "fast_detection"

\* C10 (as claimed): for a message with phrases of more than one clear
\* command, exactly one clear operation is executed, the first in the order
\* expenses, income, chat, all; the classifier is never invoked for a
\* message that matches a clear phrase (stated for the requests that return
\* success).
C10_ExactlyOneClear ==
  /\ MatchedCommands(message) # {} => thread = "idle"
  /\ (Returned /\ response[1].success /\ Cardinality(MatchedCommands(message)) > 1) =>
       ClearCalls = <<LedgerCall(ClearOp(FirstCommand(message)), 0, "clear")>>

\* C10 (amended): for a message with phrases of more than one clear
\* command that the fast detection does not answer, exactly one clear
\* operation is executed, the first in the order expenses, income, chat,
\* all; when the fast detection answers, none is; the classifier is never
\* invoked for a message that matches a clear phrase.
C10_OneClearUnlessFastPath ==
  /\ MatchedCommands(message) # {} => thread = "idle"
  /\ (Returned /\ Cardinality(MatchedCommands(message)) > 1) =>
       IF FastPathEnded
       THEN ClearCalls = << >>
       ELSE ClearCalls = <<LedgerCall(ClearOp(FirstCommand(message)), 0, "clear")>>

\* C10 witness: a message with the phrases of the income, chat and all
\* commands has been answered by clearing the income.
C10_Witness ==
  /\ Returned
  /\ MatchedCommands(message) = {"income_clear", "chat_clear", "all_clear"}
  /\ response[1].success
  /\ response[1].intent = "income_clear"
  /\ ClearCalls = <<LedgerCall("clear_income", 0, "clear")>>

\* the dispatch has taken the query branch and handled the question
QueryHandled == Branch(intent_result) = "query" /\ pc \in {"save", "done"}

HasProfitWord(msg) == AnyWord(msg, DirectProfitWords)

HasIncomeOrExpenseWord(msg) ==
  AnyWord(msg, DirectIncomeWords \cup DirectExpenseWords
                 \cup QueryIncomeWords \cup QueryExpenseWords)

\* a today qualifier in English, Hindi or Tamil
TodayAnyLanguage(msg) ==
  Today(msg) \/ \E i \in 1..Len(msg) : msg[i] = "indru_ta"

ProfitLossTexts == {"profit_loss", "profit_loss_trouble"}

\* C11: a request whose message contains a profit / loss keyword is
\* answered from the profit / loss aggregate, whatever the classifier
\* returned: a success response to such a message, given on a result of the
\* classifier, has read the profit / loss summary and carries a profit /
\* loss text.
C11_ProfitQuestionReadsAggregate ==
  (Returned /\ response[1].success /\ result_source = "classifier"
     /\ HasProfitWord(message)) =>
    /\ ReadNames = <<"get_profit_loss_summary">>
    /\ response[1].message[1] \in ProfitLossTexts

\* C12: when query handling is reached with a message that contains a
\* profit / loss keyword and an income or expense keyword, the profit / loss
\* aggregate is read, the income and expense summaries are not, and the
\* answer is a profit / loss text.
C12_ProfitPathHasPriority ==
  (QueryHandled /\ HasProfitWord(message) /\ HasIncomeOrExpenseWord(message)) =>
    /\ ReadNames = <<"get_profit_loss_summary">>
    /\ pc = "save" => response_message[1] \in ProfitLossTexts
    /\ (Returned /\ response[1].success) => response[1].message[1] \in ProfitLossTexts

\* C12 witness: the question "profit expense" has been answered with the
\* profit / loss text after one read of the profit / loss summary.
C12_Witness ==
  /\ message = <<"profit", "expense">>
  /\ QueryHandled /\ Returned /\ response[1].success
  /\ ReadNames = <<"get_profit_loss_summary">>
  /\ response[1].message[1] = "profit_loss"

\* C13: a question that reaches query handling with an income or expense
\* keyword and a today qualifier (and no profit / loss keyword) is answered
\* from a today-scoped aggregate, never from an all-time total.
C13_TodayIsTimeScoped ==
  (QueryHandled /\ Returned /\ response[1].success
     /\ ~HasProfitWord(message) /\ HasIncomeOrExpenseWord(message)
     /\ TodayAnyLanguage(message)) =>
    ReadNames = <<"get_today_expenses">>

\* C14: every terminal path produces a non-empty response string: no
\* success response and no history record carries an empty response.
C14_NonEmptyResponse ==
  /\ \A i \in 1..Len(history_calls) :
       history_calls[i].recorded => history_calls[i].response # << >>
  /\ (Returned /\ response[1].success) => response[1].message # << >>

\* C15: a text request that returns a success response has recorded exactly
\* one history entry before returning.
C15_HistoryRecordedOnce ==
  (Returned /\ response[1].success) =>
    /\ Len(history_calls) = 1
    /\ history_calls[1].recorded

\* C16: a failure of the history sink never fails the request: when a
\* history call has raised, the request still returns a success response.
C16_HistoryFailureNotFatal ==
  (Returned /\ ~HistoryReturned) => response[1].success

\* C17: after a batch, the response message is the classifier's narrative
\* message if and only if at least one outcome succeeded; when none
\* succeeded it is the "no valid transactions found" message.
C17_NarrativeIffSuccess ==
  (Branch(intent_result) = "transactions" /\ pc = "save") =>
    IF SuccessCount(business_results) > 0
    THEN response_message = Get(intent_result.response_message, <<"transactions_processed">>)
    ELSE response_message = <<"no_valid_transactions">>

\* the one-element batch that holds the transaction of a legacy result
LegacyAsBatch(ir) ==
  [ir EXCEPT !.transactions = <<Item(ir.intent, ir.data_amount, Absent, Absent)>>]

\* the ledger calls the batch loop makes for a one-element batch
BatchCalls(ir) ==
  LET t == ir.transactions[1]
  IN IF TransactionOp(t) = "skip" THEN << >>
     ELSE <<LedgerCall(TransactionOp(t), TransactionAmount(t), "text")>>

\* C18: a legacy single-transaction result is handled like the one-element
\* batch with the same intent: the same ledger operation and, for the same
\* outcome list, the same response message (stated for a legacy result that
\* carries an amount).
C18_LegacyLikeBatch ==
  (Branch(intent_result) \in {"income_add", "expense_add"} /\ pc = "save"
     /\ Truthy(intent_result.data_amount)) =>
    /\ SelectSeq(ledger_calls, LAMBDA c : c.source = "text")
         = BatchCalls(LegacyAsBatch(intent_result))
    /\ response_message = BatchMessage(LegacyAsBatch(intent_result), business_results)

\* C19: confirm_items never fails on a malformed item: the request returns
\* success, with one outcome for every item of the list, and the reported
\* count is the number of outcomes whose success flag is true (stated for
\* the runs in which no ledger call and no history call raises).
C19_MalformedItemNotFatal ==
  (endpoint = "confirm" /\ Returned /\ HistoryReturned
     /\ Len(ledger_calls) = Len(business_results)) =>
    /\ response[1].success
    /\ Len(response[1].business_results) = Len(confirmed_items)
    /\ response[1].processed = Some(SuccessCount(response[1].business_results))

\* C20: every text request that has left the fast detection (a loop over
\* the twelve patterns) eventually returns a response, even if the
\* classifier never completes: the handler does not wait for the classifier
\* beyond the expiry of the timeout.
C20_RequestReturns == (pc # "fast") ~> Returned

\* C20 witness: the classifier call hangs, the wait has expired with no
\* result, and the request has returned.
C20_Witness ==
  /\ ai_reply.kind = "hang"
  /\ join_outcome = "timeout_no_result"
  /\ thread = "running"
  /\ Returned

\* the positions of the handler before the classifier thread is started
BeforeClassifier == {"fast", "clear", "start_ai"}

\* C21: one text request invokes the classifier at most once (the thread is
\* started from a position the handler never comes back to, and before it
\* the thread is idle) and returns exactly one response (once set, the
\* response does not change); a request answered by the fast detection or
\* by a clear command has not invoked the classifier.
C21_OneClassificationOneResponse ==
  /\ [](pc \in BeforeClassifier => thread = "idle")
  /\ [][thread # "idle" => (thread' # "idle" /\ pc' \notin BeforeClassifier)]_vars
  /\ [][response # << >> => response' = response]_vars
  /\ [](Len(response) <= 1)
  /\ []((Returned /\ (response[1].fast_detection \/ ClearCalls # << >>))
          => thread = "idle")

\* C21 witness: a request answered on a classifier result.
C21_Witness ==
  /\ Returned /\ response[1].success
  /\ result_source = "classifier"
  /\ thread = "dead"

\* the message has one of these words
HasWord(msg, words) == \E k \in 1..Len(msg) : msg[k] \in words

\* C22: the fallback responder is total and of fixed shape: whenever the
\* handler takes its output, for any message and any language code, the
\* output has intent conversational, confidence 0.8, is_business_related
\* true, fallback_used true and a canned text of the category chosen in the
\* order greeting, help, how-to, default; taking it calls no ledger
\* operation and records no history.
C22_FallbackFixedShape ==
  /\ [](result_source \in {"fallback_timeout", "fallback_error"} =>
          /\ intent_result.kind = "dict"
          /\ intent_result.intent = Some("conversational")
          /\ intent_result.confidence = Some(80)
          /\ intent_result.is_business_related = Some(TRUE)
          /\ intent_result.fallback_used
          /\ intent_result.response_message # Absent
          /\ intent_result.response_message[1] # << >>
          /\ intent_result.response_message[1][1] = "fallback"
          /\ intent_result.response_message[1][2] =
               (IF HasWord(message, {"hello"}) THEN "greeting"
                ELSE IF HasWord(message, {"help"}) THEN "help"
                ELSE IF HasWord(message, {"how"}) THEN "how"
                ELSE "default")
          /\ intent_result.response_message[1][3] = LangBranch(language))
  /\ [][result_source' # result_source =>
          UNCHANGED <<ledger_calls, ledger_reads, history_calls>>]_vars

\* C22 witness: a message with a help word before a greeting word, in a
\* language with no table of its own, has been given the greeting text.
C22_Witness ==
  /\ message = <<"help", "hello">>
  /\ language = "te"
  /\ result_source = "fallback_timeout"
  /\ intent_result.response_message = Some(<<"fallback", "greeting", "other">>)

\* a fast pattern matches the message with a positive amount
FastMatchPositive(msg) ==
  \E j \in 1..Len(patterns) :
    SearchPattern(msg, patterns[j]) > 0 /\ MatchAmount(msg, patterns[j]) > 0

\* C23: in business mode, a message on which a fast pattern matches with a
\* positive amount is answered by the fast path: the classifier is never
\* invoked and no clear command is executed for the request.
C23_FastPathPreempts ==
  (chat_mode = "business" /\ FastMatchPositive(message)) =>
    /\ thread = "idle"
    /\ ClearCalls = << >>

\* C24: in the voice pipeline a classifier call that raises leads to the
\* fallback, not to a failure response: the step that calls a raising
\* classifier does not return a response with success false.
C24_VoiceClassifierGuarded ==
  [][(endpoint = "voice" /\ pc = "voice_ai" /\ ai_reply.kind = "error")
       => (response' = << >> \/ response'[1].success)]_vars

\* position of the decimal point of c (Len(c) + 1: none)
DotPos(c) ==
  IF \E i \in 1..Len(c) : c[i] = "."
  THEN CHOOSE i \in 1..Len(c) : c[i] = "."
  ELSE Len(c) + 1

\* the numeric value of the whole amount string c with the separators
\* removed, in hundredths (for at most two decimals)
WholeValue(c) ==
  LET d == DotPos(c)
      decimals == Len(c) - d
  IN ParseDigits(c, 1, d, 0) * 100
       + (IF decimals = 1 THEN ParseDigits(c, d + 1, Len(c) + 1, 0) * 10
          ELSE IF decimals = 2 THEN ParseDigits(c, d + 1, Len(c) + 1, 0)
          ELSE 0)

\* C25: for an amount string of digits, separators and an optional decimal
\* part after a fast keyword, the amount the fast path passes to the ledger
\* is the numeric value of the whole string with the separators removed,
\* and it is never zero.
C25_WholeAmountParsed ==
  FastCalls # << >> =>
    /\ FastCalls[1].amount = WholeValue(WordChars(message[2]))
    /\ FastCalls[1].amount > 0

\* the profit / loss summary has been read and has given an aggregate
ProfitSummaryRead ==
  /\ QueryHandled
  /\ ledger_reads # << >>
  /\ ledger_reads[1].read = "get_profit_loss_summary"
  /\ ledger_reads[1].outcome = "ok"

\* C26: the profit / loss answer takes its template family from the sign of
\* net profit only, in every language: profit exactly when net profit > 0,
\* loss exactly when net profit < 0, break-even exactly when it is 0.
C26_TemplateBySign ==
  (ProfitSummaryRead /\ pc = "save") =>
    LET net == ledger_reads[1].net_profit
    IN /\ response_message[1] = "profit_loss"
       /\ response_message[2] = "profit" <=> net > 0
       /\ response_message[2] = "loss" <=> net < 0
       /\ response_message[2] = "break_even" <=> net = 0

\* C26 witness: a loss answered in Tamil with the loss text, and a net
\* profit of zero answered with the break-even text.
C26_Witness ==
  /\ ProfitSummaryRead /\ pc = "save"
  /\ \/ language = "ta" /\ ledger_reads[1].net_profit < 0
        /\ response_message = <<"profit_loss", "loss", "ta">>
     \/ language = "te" /\ ledger_reads[1].net_profit = 0
        /\ response_message = <<"profit_loss", "break_even", "en">>

\* a clear command has run and the request has been answered
AdminAnswered == Returned /\ ClearCalls # << >>

\* the clear command whose ledger operation was called
AdminCommand ==
  CHOOSE cmd \in {"expense_clear", "income_clear", "chat_clear", "all_clear"} :
    ClearOp(cmd) = ClearCalls[1].op

\* C27: for en, hi, ta and ml the confirmation text of an admin command is
\* fixed by (command, language) and does not depend on the ledger's reply;
\* the ledger's own message is the text only for another language code.
C27_ConfirmationFixedByLanguage ==
  (AdminAnswered /\ response[1].success) =>
    IF language \in {"en", "hi", "ta", "ml"}
    THEN response[1].message = <<"cleared", AdminCommand, language>>
    ELSE response[1].message = response[1].business_results[1].message

\* C27 witness: in Malayalam a clear whose ledger result says success false
\* is confirmed with the fixed text, and in Telugu with the ledger's message.
C27_Witness ==
  /\ AdminAnswered /\ response[1].success
  /\ ~response[1].business_results[1].success
  /\ \/ language = "ml" /\ response[1].message = <<"cleared", "chat_clear", "ml">>
     \/ language = "te" /\ response[1].message = <<"ledger", "clear_chat_history", "fail">>

\* C28: a request handled by the query branch invokes no ledger-mutating
\* operation (add income, add expense, add inventory, any clear): only
\* aggregate reads and at most one history record.
C28_QueryBranchReadOnly ==
  (QueryHandled /\ (Returned => response[1].success)) =>
    /\ ledger_calls = << >>
    /\ Len(history_calls) <= 1

\* C29: inside the classifier-declared query branch the profit / loss,
\* all-time income and all-time expense sub-branches are never executed:
\* every message that would select them is answered by the direct keyword
\* detection before.
C29_QuerySubBranchesDead ==
  QueryHandled =>
    QueryBranch(message, intent_result) \notin {"query_profit", "query_income", "query_expense"}

\* C29 witness: a question the classifier declared a query, with an income
\* keyword and no today word, answered by the direct income detection.
C29_Witness ==
  /\ QueryHandled /\ pc = "save"
  /\ intent_result.action = Some("query")
  /\ AnyWord(message, QueryIncomeWords) /\ ~Today(message)
  /\ QueryBranch(message, intent_result) = "direct_income"
  /\ ReadNames = <<"get_income_summary">>

\* the texts that say the data was cleared: the fixed confirmation, and the
\* message of a ledger result that says success
ClearedConfirmations ==
  { <<"cleared", AdminCommand, language>>,
    LedgerResult(ClearOp(AdminCommand), "ok").message }

\* C30: on the admin path the response carries success true and the
\* "cleared" confirmation whatever result the clear operation returned;
\* only a raised error gives the failure response.
C30_ClearedWhateverLedgerReturns ==
  AdminAnswered =>
    \/ response[1] = ErrorResponse(language)
    \/ /\ response[1].success
       /\ response[1].message \in ClearedConfirmations

\* C30 (amended): on the admin path the response carries success true
\* whatever result the clear operation returned, with the fixed "cleared"
\* confirmation for en, hi, ta and ml and the ledger's own message for any
\* other language code; only a raised error gives the failure response.
C30_SuccessWhateverLedgerReturns ==
  AdminAnswered =>
    \/ response[1] = ErrorResponse(language)
    \/ /\ response[1].success
       /\ Len(response[1].business_results) = 1
       /\ response[1].message =
            IF language \in {"en", "hi", "ta", "ml"}
            THEN <<"cleared", AdminCommand, language>>
            ELSE response[1].business_results[1].message

\* C30 witness: clear_income returned success false and the English
\* response says success true with the cleared confirmation.
C30_Witness ==
  /\ AdminAnswered
  /\ language = "en"
  /\ response[1].success
  /\ response[1].business_results = <<LedgerResult("clear_income", "fail")>>
  /\ response[1].message = <<"cleared", "income_clear", "en">>

====
